---- MODULE Spec2Model ----
(***************************************************************************)
(* A model of the two installers of a-gn/ai-tool-config:                   *)
(*   src/claude/project_setup/install.py  (project-local installer)        *)
(*   src/claude/user_setup/install.py     (user-wide installer)            *)
(*                                                                         *)
(* A path is the sequence of its components below "/": /tmp/a is           *)
(* <<"tmp", "a">> and "/" is <<>>.  A pathlib.Path value is a record       *)
(* [abs, segs]; a relative one is read against the working directory.      *)
(* A text is a sequence of symbols; the marker string                      *)
(* "@agent_instructions/languages/" is the one symbol "@".                 *)
(***************************************************************************)
EXTENDS Integers, Sequences, FiniteSets, TLC

VARIABLES
    euid,       \* os.geteuid()
    links,      \* the symbolic links of the machine: path -> target path
    home,       \* Path.home()
    cwd,        \* the working directory
    fs,         \* the files the deletion works on: path -> kind
    call,       \* the last call of the safety functions and its outcome
    mdFile,     \* the content of CLAUDE.md, or NoFile
    mdKeep,     \* keep_languages handed to clean_claude_md
    mdCall,     \* the last call of clean_claude_md and its outcome
    pc,         \* where the project installer is: start, fetch, prepare,
                \* backup, copy, cleanup, done, failed
    argv,       \* the command line: [interactive, languages]
    remote,     \* the repository behind the archive URL
    tmpdir,     \* tempfile.gettempdir()
    scratchExists,  \* whether the TemporaryDirectory of main exists
    scratchMade,    \* whether this run created its TemporaryDirectory
    scratch,    \* temp_source_dir: name -> entry
    languages,  \* the languages main hands to install_configuration
    dest,       \* dest_dir without its backup directories: name -> entry
    backups,    \* the .claude_backup_<timestamp> directories of dest_dir:
                \* timestamp -> (name -> entry)
    now,        \* the last reading of the clock, in seconds
    run,        \* the number of the run
    todo,       \* the source_items the copy loop has not reached yet
    err,        \* the exception that ended the run, "" for none
    dest0,      \* dest when the run started
    backups0,   \* backups when the run started
    bk,         \* the call of backup_conflicting_files of this run
    prev,       \* how the run before this one ended
    upc,        \* where the user-wide installer is: start, backup, mkdir,
                \* install, done, failed
    ucfg,       \* what is at ~/.claude
    ubackups,   \* the ~/.claude_backup_<timestamp> entries: timestamp -> slot
    unow,       \* the last reading of the clock by the user-wide installer
    urun,       \* the number of the run of the user-wide installer
    uerr,       \* the exception that ended its run, "" for none
    ucfg0,      \* ucfg when the run started
    ubackups0,  \* ubackups when the run started
    uts,        \* the clock reading of this run's backup, 0 for none
    urepo       \* the repository git clone fetches

safetyVars == <<euid, links, home, cwd, fs, call>>
mdVars == <<mdFile, mdKeep, mdCall>>

userVars == <<upc, ucfg, ubackups, unow, urun, uerr, ucfg0, ubackups0, uts,
              urepo>>

instVars == <<pc, argv, remote, tmpdir, scratchExists, scratchMade, scratch,
              languages,
              dest, backups, now, run, todo, err, dest0, backups0, bk, prev>>

vars == <<euid, links, home, cwd, fs, call, mdFile, mdKeep, mdCall,
          pc, argv, remote, tmpdir, scratchExists, scratchMade, scratch, languages,
          dest, backups, now, run, todo, err, dest0, backups0, bk, prev,
          upc, ucfg, ubackups, unow, urun, uerr, ucfg0, ubackups0, uts, urepo>>

----------------------------------------------------------------------------
(* Paths (pathlib)                                                         *)

Abs(segs) == [abs |-> TRUE, segs |-> segs]
Rel(segs) == [abs |-> FALSE, segs |-> segs]

\* Path.parent of an absolute path; the parent of "/" is "/".
Parent(p) == IF p = <<>> THEN <<>> ELSE SubSeq(p, 1, Len(p) - 1)

\* Path.parts of an absolute path: the anchor "/" and the components.
Parts(p) == <<"/">> \o p

\* Path.parents of an absolute path: its proper ancestors, "/" included.
Parents(p) == { SubSeq(p, 1, k) : k \in 0 .. (Len(p) - 1) }

\* Path.resolve(): ".." steps up, a symbolic link is replaced by its target
\* (targets are absolute), the rest is kept whether or not it exists.
RECURSIVE Walk(_, _, _)
Walk(lk, cur, rest) ==
    IF rest = <<>> THEN cur
    ELSE LET c == Head(rest)
             nxt == Append(cur, c)
         IN  IF c = ".." THEN Walk(lk, Parent(cur), Tail(rest))
             ELSE IF nxt \in DOMAIN lk THEN Walk(lk, <<>>, lk[nxt] \o Tail(rest))
             ELSE Walk(lk, nxt, Tail(rest))

Resolve(path) ==
    IF path.abs THEN Walk(links, <<>>, path.segs)
    ELSE Walk(links, <<>>, cwd \o path.segs)

----------------------------------------------------------------------------
(* check_safe_directory (project installer)                                *)

excluded_dirs ==
    << Abs(home),
       Abs(home \o <<"Documents">>),
       Abs(home \o <<"Desktop">>),
       Abs(home \o <<"Downloads">>),
       Abs(<<"tmp">>),
       Abs(<<"var">>),
       Abs(<<"Users">>),
       Abs(<<"home">>),
       Abs(<<"System">>),
       Abs(<<"usr">>),
       Abs(<<"opt">>) >>

\* The comparison of one deny-list entry with the resolved target.
ExcludedMatchUnresolved(resolved_target, excluded) ==
    resolved_target = excluded.segs

ExcludedMatch(resolved_target, excluded) ==
    resolved_target = Resolve(excluded)

\* "" when the directory is accepted, else the error and the entry it names
\* (the first entry of the list that matches).
check_safe_directory(target_dir) ==
    LET resolved_target == Resolve(target_dir)
        hits == { i \in 1 .. Len(excluded_dirs) :
                    ExcludedMatch(resolved_target, excluded_dirs[i]) }
    IN  IF hits = {} THEN [err |-> "", dir |-> <<>>]
        ELSE LET i == CHOOSE j \in hits : \A k \in hits : j <= k
             IN  [err |-> "ValueError:unsafe directory",
                  dir |-> excluded_dirs[i].segs]

----------------------------------------------------------------------------
(* safe_delete (project installer)                                         *)

temp_roots ==
    << <<"tmp">>,
       <<"private", "var", "folders">>,
       <<"var", "folders">>,
       <<"var", "tmp">>,
       <<"private", "tmp">> >>

IsPrefix(a, b) == Len(a) <= Len(b) /\ SubSeq(b, 1, Len(a)) = a

\* shutil.rmtree: the directory and everything below it goes.
Rmtree(files, p) ==
    [q \in { x \in DOMAIN files : ~IsPrefix(p, x) } |-> files[q]]

\* Path.unlink
Unlink(files, p) ==
    [q \in (DOMAIN files) \ {p} |-> files[q]]

IsSafeOrSelf(resolved_path) ==
    \E i \in 1 .. Len(temp_roots) : IsPrefix(temp_roots[i], resolved_path)

\* The loop over temp_roots that sets is_safe.
IsSafe(resolved_path) ==
    \E i \in 1 .. Len(temp_roots) : temp_roots[i] \in Parents(resolved_path)

\* safe_delete on the files `files`: the error ("" when it deleted) and the
\* files left.
safe_delete(files, path, directory_okay) ==
    LET resolved_path == Resolve(path)
        kind == IF resolved_path \in DOMAIN files THEN files[resolved_path]
                ELSE "absent"
    IN  IF euid = 0
          THEN [err |-> "RuntimeError:running as root", files |-> files]
        ELSE IF Len(Parts(resolved_path)) <= 1
          THEN [err |-> "ValueError:path too short", files |-> files]
        ELSE IF ~IsSafe(resolved_path)
          THEN [err |-> "ValueError:not a safe path", files |-> files]
        ELSE IF kind = "dir" /\ directory_okay
          THEN [err |-> "", files |-> Rmtree(files, resolved_path)]
        ELSE IF kind = "dir" /\ ~directory_okay
          THEN [err |-> "ValueError:expected file", files |-> files]
        ELSE IF kind = "file" \/ resolved_path \in DOMAIN links
          THEN [err |-> "", files |-> Unlink(files, resolved_path)]
        ELSE IF kind = "absent"
          THEN [err |-> "FileNotFoundError", files |-> files]
        ELSE [err |-> "RuntimeError:not a file or directory", files |-> files]

----------------------------------------------------------------------------
(* clean_claude_md (project installer)                                     *)

\* A file: absent, or there with its text.
NoFile == [exists |-> FALSE, text |-> <<>>]
File(text) == [exists |-> TRUE, text |-> text]

Marker == "@"      \* the string "@agent_instructions/languages/"
NL == "\n"
FF == "\f"         \* one of the other line boundaries of str.splitlines

\* str.splitlines(): a line ends at a line boundary; no empty last line.
RECURSIVE SplitLinesFrom(_, _)
SplitLinesFrom(text, cur) ==
    IF text = <<>> THEN (IF cur = <<>> THEN <<>> ELSE <<cur>>)
    ELSE IF Head(text) \in {NL, FF}
           THEN <<cur>> \o SplitLinesFrom(Tail(text), <<>>)
    ELSE SplitLinesFrom(Tail(text), Append(cur, Head(text)))

SplitLines(text) == SplitLinesFrom(text, <<>>)

\* str.split(sep): the pieces between the occurrences of sep, empty ones kept.
RECURSIVE SplitFrom(_, _, _)
SplitFrom(text, sep, cur) ==
    IF text = <<>> THEN <<cur>>
    ELSE IF Head(text) = sep
           THEN <<cur>> \o SplitFrom(Tail(text), sep, <<>>)
    ELSE SplitFrom(Tail(text), sep, Append(cur, Head(text)))

Split(text, sep) == SplitFrom(text, sep, <<>>)

\* sep in text
Contains(text, sep) == \E i \in 1 .. Len(text) : text[i] = sep

\* "\n".join(lines)
RECURSIVE Join(_)
Join(lines) ==
    IF lines = <<>> THEN <<>>
    ELSE IF Len(lines) = 1 THEN lines[1]
    ELSE lines[1] \o <<NL>> \o Join(Tail(lines))

\* x in keep_languages (a tuple)
InTuple(x, t) == \E i \in 1 .. Len(t) : t[i] = x

KeepLineLastPart(line, keep_languages) ==
    IF Contains(line, Marker)
      THEN LET parts == Split(line, Marker)
           IN  /\ Len(parts) > 1
               /\ LET lang_part == Split(parts[Len(parts)], "/")[1]
                  IN  InTuple(lang_part, keep_languages)
    ELSE TRUE

\* The loop body's test: whether the line is appended to filtered_lines.
KeepLine(line, keep_languages) ==
    IF Contains(line, Marker)
      THEN LET parts == Split(line, Marker)
           IN  /\ Len(parts) > 1
               /\ LET lang_part == Split(parts[2], "/")[1]
                  IN  InTuple(lang_part, keep_languages)
    ELSE TRUE

RECURSIVE FilterLines(_, _)
FilterLines(lines, keep_languages) ==
    IF lines = <<>> THEN <<>>
    ELSE (IF KeepLine(Head(lines), keep_languages) THEN <<Head(lines)>> ELSE <<>>)
         \o FilterLines(Tail(lines), keep_languages)

\* What write_text is handed.
Rendered(filtered_lines) == Join(filtered_lines) \o <<NL>>

\* clean_claude_md on the file `file`: the error ("" when it rewrote the file)
\* and the file afterwards.
clean_claude_md(file, keep_languages) ==
    IF ~file.exists
      THEN [err |-> "FileNotFoundError:CLAUDE.md", file |-> file]
    ELSE IF keep_languages = <<>>
      THEN [err |-> "ValueError:no languages", file |-> file]
    ELSE [err |-> "",
          file |-> File(Rendered(FilterLines(SplitLines(file.text),
                                             keep_languages)))]

----------------------------------------------------------------------------
(* The project installer: directories and their entries                    *)

\* An entry of a directory.  src tells whose content it holds: "old" (there
\* before the installer ran), "bundle" (copied from the bundle), "partial"
\* (a copy that broke off), "merged" (a directory a file was copied into).
\* A directory with haslangs holds the folder languages, whose entries are
\* langs.
Entry(kind, src, text, haslangs, langs) ==
    [kind |-> kind, src |-> src, text |-> text,
     haslangs |-> haslangs, langs |-> langs]

OldEntry(kind) == Entry(kind, "old", <<>>, FALSE, {})
BundleFile(text) == Entry("file", "bundle", text, FALSE, {})
BundleDir == Entry("dir", "bundle", <<>>, FALSE, {})
AgentDir(langs) == Entry("dir", "bundle", <<>>, TRUE, langs)
Lang(name, kind) == [name |-> name, kind |-> kind]

EmptyDir == [x \in {} |-> OldEntry("file")]

Restrict(f, S) == [x \in S |-> f[x]]
Without(f, S) == [x \in (DOMAIN f) \ S |-> f[x]]
Put(f, k, v) == [x \in (DOMAIN f) \cup {k} |-> IF x = k THEN v ELSE f[x]]

\* The TemporaryDirectory of main and the paths below it.
ScratchPath == tmpdir \o <<"claude_install_">>
TempSourceDir ==
    ScratchPath \o <<"extract", "ai-tool-config-main", "claude", "project_setup">>
LangDir == TempSourceDir \o <<"agent_instructions", "languages">>

\* lang_dir.exists()
LangDirExists(items) ==
    /\ "agent_instructions" \in DOMAIN items
    /\ items["agent_instructions"].kind = "dir"
    /\ items["agent_instructions"].haslangs

LangsOf(items) ==
    IF LangDirExists(items) THEN items["agent_instructions"].langs ELSE {}

LangExistsIsDir(items, lang) ==
    \E l \in LangsOf(items) : l.name = lang /\ l.kind = "dir"

\* (lang_dir / lang).exists(): any entry of that name will do, and "." is
\* lang_dir itself.
LangExists(items, lang) ==
    /\ LangDirExists(items)
    /\ (lang = "." \/ \E l \in LangsOf(items) : l.name = lang)

\* The validation loop of install_configuration: the index of the first
\* language that does not exist, 0 when all do.
FirstMissing(items, langs) ==
    LET bad == { i \in 1 .. Len(langs) : ~LangExists(items, langs[i]) }
    IN  IF bad = {} THEN 0 ELSE CHOOSE i \in bad : \A k \in bad : i <= k

\* The loop of clean_language_files over the directories to delete.
RECURSIVE DeleteAll(_, _)
DeleteAll(files, paths) ==
    IF paths = {} THEN [err |-> "", files |-> files]
    ELSE LET p == CHOOSE x \in paths : TRUE
             r == safe_delete(files, Abs(p), TRUE)
         IN  IF r.err # "" THEN r ELSE DeleteAll(r.files, paths \ {p})

clean_language_files(items, keep_languages) ==
    IF keep_languages = <<>>
      THEN [err |-> "ValueError:no languages", items |-> items]
    ELSE IF ~LangDirExists(items)
      THEN [err |-> "FileNotFoundError:languages", items |-> items]
    ELSE LET langs == LangsOf(items)
             files == [p \in { LangDir \o <<l.name>> : l \in langs } |->
                         (CHOOSE l \in langs : l.name = p[Len(p)]).kind]
             unused == { LangDir \o <<l.name>> :
                           l \in { x \in langs : /\ x.kind = "dir"
                                                /\ ~InTuple(x.name, keep_languages) } }
             r == DeleteAll(files, unused)
             left == { l \in langs : (LangDir \o <<l.name>>) \in DOMAIN r.files }
         IN  [err |-> r.err,
              items |-> [items EXCEPT !["agent_instructions"].langs = left]]

\* A language name as the text it is in the manifest.
AsText(name) == <<name>>

\* clean_claude_md(temp_source_dir / "CLAUDE.md", languages)
CleanManifest(items, langs) ==
    LET there == "CLAUDE.md" \in DOMAIN items /\ items["CLAUDE.md"].kind = "file"
        file == IF there THEN File(items["CLAUDE.md"].text) ELSE NoFile
        r == clean_claude_md(file, [i \in 1 .. Len(langs) |-> AsText(langs[i])])
    IN  [err |-> r.err,
         items |-> IF r.err = ""
                     THEN [items EXCEPT !["CLAUDE.md"].text = r.file.text]
                   ELSE items]

files_to_remove_short == <<"README.md", "install.sh">>

files_to_remove == <<"README.md", "install.sh", "install.py">>

\* The loop over files_to_remove: unlink what exists; unlink fails on a
\* directory.
RECURSIVE RemoveFiles(_, _)
RemoveFiles(items, names) ==
    IF names = <<>> THEN [err |-> "", items |-> items]
    ELSE LET n == Head(names)
         IN  IF n \notin DOMAIN items THEN RemoveFiles(items, Tail(names))
             ELSE IF items[n].kind = "dir"
               THEN [err |-> "IsADirectoryError", items |-> items]
             ELSE RemoveFiles(Without(items, {n}), Tail(names))

\* The validation at the head of install_configuration.
Validate(items, langs) == FirstMissing(items, langs)

\* install_configuration up to the listing of source_items: the scratch copy
\* afterwards, the error, and the language the error names.
Prepare(items, langs) ==
    LET missing == Validate(items, langs)
        a == clean_language_files(items, langs)
        b == CleanManifest(a.items, langs)
        c == RemoveFiles(b.items, files_to_remove)
    IN  IF missing # 0
          THEN [err |-> "FileNotFoundError:language", lang |-> langs[missing],
                items |-> items]
        ELSE IF a.err # "" THEN [err |-> a.err, lang |-> "", items |-> a.items]
        ELSE IF b.err # "" THEN [err |-> b.err, lang |-> "", items |-> b.items]
        ELSE [err |-> c.err, lang |-> "", items |-> c.items]

ConflictsFilesOnly(entries, source_items) ==
    { n \in source_items : n \in DOMAIN entries /\ entries[n].kind = "file" }

\* The names backup_conflicting_files collects in conflicts.
Conflicts(entries, source_items) ==
    { n \in source_items : n \in DOMAIN entries }

backup_into_existing(entries, bdirs, source_items, ts) ==
    LET conflicts == Conflicts(entries, source_items)
        before == IF ts \in DOMAIN bdirs THEN bdirs[ts] ELSE EmptyDir
    IN  IF conflicts = {}
          THEN [err |-> "", dest |-> entries, backups |-> bdirs]
        ELSE [err |-> "",
              dest |-> Without(entries, conflicts),
              backups |-> Put(bdirs, ts,
                              [n \in (DOMAIN before) \cup conflicts |->
                                 IF n \in conflicts THEN entries[n]
                                 ELSE before[n]])]

\* backup_conflicting_files at clock reading ts: the error, and dest_dir
\* afterwards (its entries and its backup directories).
backup_conflicting_files(entries, bdirs, source_items, ts) ==
    LET conflicts == Conflicts(entries, source_items)
    IN  IF conflicts = {}
          THEN [err |-> "", dest |-> entries, backups |-> bdirs]
        ELSE IF ts \in DOMAIN bdirs
          THEN [err |-> "FileExistsError:backup", dest |-> entries,
                backups |-> bdirs]
        ELSE [err |-> "",
              dest |-> Without(entries, conflicts),
              backups |-> Put(bdirs, ts, Restrict(entries, conflicts))]

\* One round of the copy loop of install_configuration.
CopyOne(entries, name, item) ==
    IF item.kind = "dir"
      THEN IF name \in DOMAIN entries /\ entries[name].kind # "dir"
             THEN [err |-> "NotADirectoryError:rmtree", dest |-> entries]
           ELSE [err |-> "", dest |-> Put(entries, name, item)]
    ELSE IF name \in DOMAIN entries /\ entries[name].kind = "dir"
      THEN [err |-> "",
            dest |-> [entries EXCEPT ![name].src = "merged"]]
    ELSE [err |-> "", dest |-> Put(entries, name, item)]

\* The tuples that list the set S once each.
Perms(S) ==
    { t \in [1 .. Cardinality(S) -> S] :
        \A i, j \in 1 .. Cardinality(S) : i # j => t[i] # t[j] }

\* get_available_languages, the download done: the directories of the
\* languages folder of the repository.
AvailableLanguages(repo) ==
    IF repo.present /\ LangDirExists(repo.items)
      THEN [err |-> "",
            names |-> { l.name : l \in { x \in LangsOf(repo.items) : x.kind = "dir" } }]
    ELSE [err |-> "FileNotFoundError:languages", names |-> {}]

\* A word of the interactive answer: a number or a name.
Num(k) == [digit |-> TRUE, n |-> k, name |-> ""]
Name(s) == [digit |-> FALSE, n |-> 0, name |-> s]

\* The loop of choose_languages_interactively that removes duplicates.
RECURSIVE Unique(_, _)
Unique(chosen, seen) ==
    IF chosen = <<>> THEN <<>>
    ELSE IF Head(chosen) \in seen THEN Unique(Tail(chosen), seen)
    ELSE <<Head(chosen)>> \o Unique(Tail(chosen), seen \cup {Head(chosen)})

\* choose_languages_interactively on the answer `words` (split on blanks).
choose_languages_interactively(available_languages, words) ==
    LET ok(w) == IF w.digit
                   THEN 0 <= w.n - 1 /\ w.n - 1 < Len(available_languages)
                 ELSE InTuple(w.name, available_languages)
        pick(w) == IF w.digit THEN available_languages[w.n] ELSE w.name
    IN  IF words = <<>> THEN [err |-> "ValueError:no languages selected",
                              langs |-> <<>>]
        ELSE IF \E i \in 1 .. Len(words) : ~ok(words[i])
          THEN [err |-> "ValueError:invalid selection", langs |-> <<>>]
        ELSE [err |-> "",
              langs |-> Unique([i \in 1 .. Len(words) |-> pick(words[i])], {})]

----------------------------------------------------------------------------
(* The project installer: main, step by step                               *)

NoErr == [what |-> "", lang |-> ""]
Err(what) == [what |-> what, lang |-> ""]

\* The record of a call of backup_conflicting_files: what it was handed and
\* what it left.
NoBackupCall ==
    [called |-> FALSE, dest |-> EmptyDir, backups |-> EmptyDir,
     items |-> {}, ts |-> 0, err |-> "",
     destAfter |-> EmptyDir, backupsAfter |-> EmptyDir]

\* The record of the run before this one.
NoRun == [ran |-> FALSE, ok |-> FALSE, dest |-> EmptyDir, made |-> 0,
          languages |-> <<>>, bk |-> NoBackupCall]

MaxTime == 2
MaxRuns == 2

\* What the user may answer to the prompt, split on blanks.
Answers ==
    { <<>>, <<Num(3)>>, <<Num(2), Num(1)>>, <<Name("java")>>,
      <<Name("python"), Name("python"), Name("go")>> }

\* main, "Determine languages to install": the outcomes of the branch the
\* command line selects.  iterdir lists in any order; the download may fail.
LanguageChoices ==
    LET avail == AvailableLanguages(remote)
        fetched == IF avail.err # "" THEN { [err |-> Err(avail.err), langs |-> <<>>] }
                   ELSE { [err |-> NoErr, langs |-> t] : t \in Perms(avail.names) }
        asked == { IF f.err # NoErr THEN f
                   ELSE LET c == choose_languages_interactively(f.langs, w)
                        IN  [err |-> Err(c.err), langs |-> c.langs] :
                   f \in fetched, w \in Answers }
        offline == { [err |-> Err("URLError"), langs |-> <<>>] }
    IN  IF argv.interactive THEN asked \cup offline
        ELSE IF argv.languages # <<>>
          THEN { [err |-> NoErr, langs |-> argv.languages] }
        ELSE fetched \cup offline

\* main up to the TemporaryDirectory: the root check, check_safe_directory
\* and the choice of languages.
Start ==
    /\ pc = "start"
    /\ \/ /\ euid = 0
          /\ pc' = "failed"
          /\ err' = Err("RuntimeError:root")
          /\ languages' = <<>>
       \/ /\ euid # 0
          /\ check_safe_directory(Abs(cwd)).err # ""
          /\ pc' = "failed"
          /\ err' = Err(check_safe_directory(Abs(cwd)).err)
          /\ languages' = <<>>
       \/ /\ euid # 0
          /\ check_safe_directory(Abs(cwd)).err = ""
          /\ \E c \in LanguageChoices :
                /\ languages' = c.langs
                /\ err' = c.err
                /\ pc' = IF c.err = NoErr THEN "fetch" ELSE "failed"
    /\ UNCHANGED <<argv, remote, tmpdir, scratchExists, scratchMade, scratch,
                   dest, backups, now, run, todo, dest0, backups0, bk, prev>>
    /\ UNCHANGED <<safetyVars, mdVars, userVars>>

\* main inside the TemporaryDirectory, up to the call of
\* install_configuration: download, extraction, the folder's existence.
Fetch ==
    /\ pc = "fetch"
    /\ scratchExists' = TRUE
    /\ scratchMade' = TRUE
    /\ \/ /\ pc' = "cleanup"
          /\ err' = Err("URLError")
          /\ scratch' = EmptyDir
       \/ /\ ~remote.present
          /\ pc' = "cleanup"
          /\ err' = Err("FileNotFoundError:project setup")
          /\ scratch' = EmptyDir
       \/ /\ remote.present
          /\ pc' = "prepare"
          /\ err' = NoErr
          /\ scratch' = remote.items
    /\ UNCHANGED <<argv, remote, tmpdir, languages, dest, backups,
                   now, run, todo, dest0, backups0, bk, prev>>
    /\ UNCHANGED <<safetyVars, mdVars, userVars>>

\* install_configuration: validation, the cleaning of the scratch copy and
\* the listing of source_items.
PrepareStep ==
    /\ pc = "prepare"
    /\ LET r == Prepare(scratch, languages)
       IN  /\ scratch' = r.items
           /\ err' = [what |-> r.err, lang |-> r.lang]
           /\ pc' = IF r.err = "" THEN "backup" ELSE "cleanup"
           /\ todo' = IF r.err = "" THEN DOMAIN r.items ELSE {}
    /\ UNCHANGED <<argv, remote, tmpdir, scratchExists, scratchMade, languages,
                   dest, backups, now, run, dest0, backups0, bk, prev>>
    /\ UNCHANGED <<safetyVars, mdVars, userVars>>

\* install_configuration: the call of backup_conflicting_files.  The clock is
\* read only when there are conflicts.
BackupStep ==
    /\ pc = "backup"
    /\ \E ts \in now .. MaxTime :
          LET r == backup_conflicting_files(dest, backups, todo, ts)
          IN  /\ dest' = r.dest
              /\ backups' = r.backups
              /\ now' = IF Conflicts(dest, todo) = {} THEN now ELSE ts
              /\ bk' = [called |-> TRUE, dest |-> dest, backups |-> backups,
                        items |-> todo,
                        ts |-> IF Conflicts(dest, todo) = {} THEN 0 ELSE ts,
                        err |-> r.err,
                        destAfter |-> r.dest, backupsAfter |-> r.backups]
              /\ err' = Err(r.err)
              /\ pc' = IF r.err = "" THEN "copy" ELSE "cleanup"
    /\ UNCHANGED <<argv, remote, tmpdir, scratchExists, scratchMade, scratch,
                   languages,
                   run, todo, dest0, backups0, prev>>
    /\ UNCHANGED <<safetyVars, mdVars, userVars>>

\* install_configuration: one round of the copy loop, on any item not yet
\* copied (iterdir lists in any order).
CopyItem ==
    /\ pc = "copy"
    /\ \E n \in todo :
          LET r == CopyOne(dest, n, scratch[n])
          IN  /\ dest' = r.dest
              /\ err' = Err(r.err)
              /\ todo' = todo \ {n}
              /\ pc' = IF r.err # "" \/ todo \ {n} = {} THEN "cleanup" ELSE "copy"
    /\ UNCHANGED <<argv, remote, tmpdir, scratchExists, scratchMade, scratch,
                   languages,
                   backups, now, run, dest0, backups0, bk, prev>>
    /\ UNCHANGED <<safetyVars, mdVars, userVars>>

\* A copy that breaks off (the disk is full, say): the item is left half
\* copied and the exception ends the run.
CopyBreaks ==
    /\ pc = "copy"
    /\ \E n \in todo :
          LET r == CopyOne(dest, n, scratch[n])
          IN  /\ r.err = ""
              /\ dest' = [r.dest EXCEPT ![n].src = "partial"]
              /\ err' = Err("OSError:copy")
              /\ pc' = "cleanup"
    /\ UNCHANGED <<argv, remote, tmpdir, scratchExists, scratchMade, scratch,
                   languages,
                   backups, now, run, todo, dest0, backups0, bk, prev>>
    /\ UNCHANGED <<safetyVars, mdVars, userVars>>

\* The user interrupts the run while the TemporaryDirectory is open.
Interrupt ==
    /\ pc \in {"prepare", "backup", "copy"}
    /\ pc' = "cleanup"
    /\ err' = Err("KeyboardInterrupt")
    /\ UNCHANGED <<argv, remote, tmpdir, scratchExists, scratchMade, scratch,
                   languages,
                   dest, backups, now, run, todo, dest0, backups0, bk, prev>>
    /\ UNCHANGED <<safetyVars, mdVars, userVars>>

\* The checks of safe_delete, on a path.
PassesDeletionChecks(path) ==
    /\ euid # 0
    /\ Len(Parts(Resolve(path))) > 1
    /\ IsSafe(Resolve(path))

ScratchLeftWhenUnsafe == ~PassesDeletionChecks(Abs(ScratchPath))

\* Whether the scratch directory is still there after the with block of main
\* is left: TemporaryDirectory removes it, whatever its path.
ScratchLeft == FALSE

\* The exit of the with block of main, on every way out of it.
Cleanup ==
    /\ pc = "cleanup"
    /\ scratchExists' = ScratchLeft
    /\ scratch' = EmptyDir
    /\ pc' = IF err = NoErr THEN "done" ELSE "failed"
    /\ UNCHANGED <<argv, remote, tmpdir, scratchMade, languages, dest, backups,
                   now, run, todo, err, dest0, backups0, bk, prev>>
    /\ UNCHANGED <<safetyVars, mdVars, userVars>>

\* The installer is run again, on the same directory, with the same command
\* line, against the same repository.
Rerun ==
    /\ pc \in {"done", "failed"}
    /\ run < MaxRuns
    /\ pc' = "start"
    /\ run' = run + 1
    /\ err' = NoErr
    /\ languages' = <<>>
    /\ todo' = {}
    /\ bk' = NoBackupCall
    /\ dest0' = dest
    /\ backups0' = backups
    /\ prev' = [ran |-> TRUE, ok |-> pc = "done", dest |-> dest,
                made |-> Cardinality((DOMAIN backups) \ (DOMAIN backups0)),
                languages |-> languages, bk |-> bk]
    /\ scratchMade' = FALSE
    /\ UNCHANGED <<argv, remote, tmpdir, scratchExists, scratch, dest, backups,
                   now>>
    /\ UNCHANGED <<safetyVars, mdVars, userVars>>

----------------------------------------------------------------------------
(* The user-wide installer (user_setup/install.py)                         *)

\* What is at ~/.claude: nothing, a directory, a file, or a symbolic link
\* to nothing.  gen is the run that made it (0: it was there before), clone
\* whether it holds instructions_repository_clone, symlinks the links made
\* in it.
Config(kind, gen) ==
    [kind |-> kind, gen |-> gen, clone |-> FALSE, symlinks |-> {}]
NoConfig == Config("absent", 0)

\* config_dir.exists(): a symbolic link to nothing does not exist.
ConfigExists(c) == c.kind \in {"dir", "file"}

\* What is at ~/.claude_backup_<timestamp>: top is the entry itself, inner
\* the entry .claude inside it when top is a directory.
Slot(top, inner) == [top |-> top, inner |-> inner]

\* shutil.move(config_dir, backup_dir): a move onto an existing directory
\* goes into it, and fails when the name is taken there; a file replaces a
\* file; a directory cannot replace a file.
Move(c, slots, ts) ==
    IF ts \notin DOMAIN slots
      THEN [err |-> "", slots |-> Put(slots, ts, Slot(c, NoConfig))]
    ELSE IF slots[ts].top.kind = "dir"
      THEN IF slots[ts].inner.kind = "absent"
             THEN [err |-> "", slots |-> [slots EXCEPT ![ts].inner = c]]
           ELSE [err |-> "shutil.Error:destination exists", slots |-> slots]
    ELSE IF c.kind = "file"
      THEN [err |-> "", slots |-> [slots EXCEPT ![ts].top = c]]
    ELSE [err |-> "FileExistsError:copytree", slots |-> slots]

\* backup_existing_config at clock reading ts.
backup_existing_config(c, slots, ts) ==
    IF ~ConfigExists(c) THEN [err |-> "", config |-> c, slots |-> slots]
    ELSE LET m == Move(c, slots, ts)
         IN  [err |-> m.err,
              config |-> IF m.err = "" THEN NoConfig ELSE c,
              slots |-> m.slots]

\* config_dir.mkdir(parents=False, exist_ok=False)
Mkdir(c, gen) ==
    IF c.kind # "absent" THEN [err |-> "FileExistsError:mkdir", config |-> c]
    ELSE [err |-> "", config |-> Config("dir", gen)]

\* install_with_git_clone, the clone done, on the repository repo.
install_with_git_clone(c, repo) ==
    LET cloned == [c EXCEPT !.clone = TRUE]
    IN  IF ~repo.user_setup
          THEN [err |-> "FileNotFoundError:user_setup", config |-> cloned]
        ELSE IF ~repo.claude_md
          THEN [err |-> "FileNotFoundError:CLAUDE.md", config |-> cloned]
        ELSE [err |-> "",
              config |-> [cloned EXCEPT !.symlinks =
                            IF repo.commands THEN {"CLAUDE.md", "commands"}
                            ELSE {"CLAUDE.md"}]]

UserRepositories ==
    { [user_setup |-> TRUE, claude_md |-> TRUE, commands |-> TRUE],
      [user_setup |-> TRUE, claude_md |-> TRUE, commands |-> FALSE],
      [user_setup |-> TRUE, claude_md |-> FALSE, commands |-> TRUE],
      [user_setup |-> FALSE, claude_md |-> FALSE, commands |-> FALSE] }

\* main: the root check.
UStart ==
    /\ upc = "start"
    /\ IF euid = 0
         THEN upc' = "failed" /\ uerr' = "RuntimeError:root"
       ELSE upc' = "backup" /\ uerr' = ""
    /\ UNCHANGED <<ucfg, ubackups, unow, urun, ucfg0, ubackups0, uts, urepo>>
    /\ UNCHANGED <<safetyVars, mdVars, instVars>>

\* main: backup_existing_config.  The clock is read only when ~/.claude
\* exists.
UBackup ==
    /\ upc = "backup"
    /\ \E ts \in unow .. MaxTime :
          LET r == backup_existing_config(ucfg, ubackups, ts)
          IN  /\ ucfg' = r.config
              /\ ubackups' = r.slots
              /\ uerr' = r.err
              /\ unow' = IF ConfigExists(ucfg) THEN ts ELSE unow
              /\ uts' = IF ConfigExists(ucfg) THEN ts ELSE 0
              /\ upc' = IF r.err = "" THEN "mkdir" ELSE "failed"
    /\ UNCHANGED <<urun, ucfg0, ubackups0, urepo>>
    /\ UNCHANGED <<safetyVars, mdVars, instVars>>

\* main: config_dir.mkdir.
UMkdir ==
    /\ upc = "mkdir"
    /\ LET r == Mkdir(ucfg, urun)
       IN  /\ ucfg' = r.config
           /\ uerr' = r.err
           /\ upc' = IF r.err = "" THEN "install" ELSE "failed"
    /\ UNCHANGED <<ubackups, unow, urun, ucfg0, ubackups0, uts, urepo>>
    /\ UNCHANGED <<safetyVars, mdVars, instVars>>

\* main: install_with_git_clone; git clone may fail.
UInstall ==
    /\ upc = "install"
    /\ \/ /\ uerr' = "CalledProcessError:git clone"
          /\ upc' = "failed"
          /\ ucfg' = ucfg
       \/ LET r == install_with_git_clone(ucfg, urepo)
          IN  /\ ucfg' = r.config
              /\ uerr' = r.err
              /\ upc' = IF r.err = "" THEN "done" ELSE "failed"
    /\ UNCHANGED <<ubackups, unow, urun, ucfg0, ubackups0, uts, urepo>>
    /\ UNCHANGED <<safetyVars, mdVars, instVars>>

\* The installer is run again.
URerun ==
    /\ upc \in {"done", "failed"}
    /\ urun < MaxRuns
    /\ upc' = "start"
    /\ urun' = urun + 1
    /\ uerr' = ""
    /\ uts' = 0
    /\ ucfg0' = ucfg
    /\ ubackups0' = ubackups
    /\ UNCHANGED <<ucfg, ubackups, unow, urepo>>
    /\ UNCHANGED <<safetyVars, mdVars, instVars>>


----------------------------------------------------------------------------
(* The machines, texts and bundles the functions are tried on             *)

LinuxLinks ==
    (<<"home", "u", "lnk">> :> <<"usr">>)
    @@ (<<"tmp", "esc">> :> <<"home", "u", "proj">>)

MacLinks ==
    (<<"tmp">> :> <<"private", "tmp">>)
    @@ (<<"var">> :> <<"private", "var">>)

Machines ==
    { [links |-> LinuxLinks, home |-> <<"home", "u">>],
      [links |-> MacLinks, home |-> <<"Users", "u">>] }

LinuxFiles ==
    (<<"tmp">> :> "dir") @@ (<<"tmp", "a">> :> "dir")
    @@ (<<"tmp", "a", "f">> :> "file") @@ (<<"tmp", "g">> :> "file")
    @@ (<<"tmp", "p">> :> "fifo")
    @@ (<<"var">> :> "dir") @@ (<<"var", "tmp">> :> "dir")
    @@ (<<"var", "tmp", "d">> :> "dir")
    @@ (<<"home">> :> "dir") @@ (<<"home", "u">> :> "dir")
    @@ (<<"home", "u", "proj">> :> "dir")
    @@ (<<"home", "u", "proj", "f">> :> "file")
    @@ (<<"usr">> :> "dir") @@ (<<"usr", "local">> :> "dir")

MacFiles ==
    (<<"private">> :> "dir") @@ (<<"private", "tmp">> :> "dir")
    @@ (<<"private", "tmp", "a">> :> "dir")
    @@ (<<"private", "tmp", "a", "f">> :> "file")
    @@ (<<"private", "tmp", "g">> :> "file")
    @@ (<<"private", "var">> :> "dir")
    @@ (<<"private", "var", "folders">> :> "dir")
    @@ (<<"private", "var", "folders", "zz">> :> "dir")
    @@ (<<"private", "var", "tmp">> :> "dir")
    @@ (<<"Users">> :> "dir") @@ (<<"Users", "u">> :> "dir")
    @@ (<<"Users", "u", "proj">> :> "dir")
    @@ (<<"usr">> :> "dir") @@ (<<"usr", "local">> :> "dir")

FilesOf(machine) ==
    IF machine.links = MacLinks THEN MacFiles ELSE LinuxFiles

\* The paths handed to safe_delete and check_safe_directory.
TriedPaths ==
    { Abs(<<>>), Abs(<<"tmp">>), Abs(<<"tmp", "a">>), Abs(<<"tmp", "a", "f">>),
      Abs(<<"tmp", "g">>), Abs(<<"tmp", "p">>), Abs(<<"tmp", "nope">>),
      Abs(<<"tmp", "esc">>), Abs(<<"tmp", "..", "home", "u", "proj">>),
      Abs(<<"tmp", "a", "..">>),
      Abs(<<"var">>), Abs(<<"var", "tmp">>), Abs(<<"var", "tmp", "d">>),
      Abs(<<"var", "folders">>), Abs(<<"var", "folders", "zz">>),
      Abs(<<"private", "tmp">>), Abs(<<"private", "tmp", "a">>),
      Abs(<<"private", "var">>),
      Abs(<<"home">>), Abs(<<"home", "u">>), Abs(<<"home", "u", "proj">>),
      Abs(<<"home", "u", "proj", "f">>), Abs(<<"home", "u", "Documents">>),
      Abs(<<"home", "u", "Documents", "work">>), Abs(<<"home", "u", "lnk">>),
      Abs(<<"Users">>), Abs(<<"Users", "u">>), Abs(<<"Users", "u", "Desktop">>),
      Abs(<<"Users", "u", "proj">>),
      Abs(<<"usr">>), Abs(<<"usr", "local">>), Abs(<<"opt">>),
      Abs(<<"System">>), Abs(<<"etc">>),
      Rel(<<>>), Rel(<<"a">>), Rel(<<"..">>), Rel(<<"g">>) }

WorkingDirs == { <<"tmp">>, <<"home", "u", "proj">>, <<"usr", "local">> }

MaxTextLen == 5

Alphabet == {Marker, "/", "py", NL, FF}

Texts == UNION { [1 .. n -> Alphabet] : n \in 0 .. MaxTextLen }

Py == <<"py">>
PyPy == <<"py", "py">>

KeepTuples == { <<>>, <<Py>>, <<PyPy>>, <<PyPy, Py>> }

\* The machines the installer runs on, with their temporary directory:
\* Linux with /tmp, Linux with TMPDIR in the home directory, macOS.
InstallMachines ==
    { [links |-> LinuxLinks, home |-> <<"home", "u">>, tmpdir |-> <<"tmp">>],
      [links |-> LinuxLinks, home |-> <<"home", "u">>,
       tmpdir |-> <<"home", "u", "scratch">>],
      [links |-> MacLinks, home |-> <<"Users", "u">>,
       tmpdir |-> <<"var", "folders", "zz">>] }

\* Who runs the installer, and where.
Invocations ==
    { [euid |-> 1000, cwd |-> <<"home", "u", "proj">>],
      [euid |-> 0, cwd |-> <<"home", "u", "proj">>],
      [euid |-> 1000, cwd |-> <<"usr">>],
      [euid |-> 1000, cwd |-> <<"home", "u", "lnk">>] }

ManifestText ==
    <<Marker, "python", "/", "x", NL, Marker, "go", "/", "y", NL, "plain">>

BundleLangs ==
    { Lang("python", "dir"), Lang("go", "dir"), Lang("notes.txt", "file") }

FullItems ==
    ("CLAUDE.md" :> BundleFile(ManifestText))
    @@ ("agent_instructions" :> AgentDir(BundleLangs))
    @@ ("README.md" :> BundleFile(<<"readme">>))
    @@ ("install.py" :> BundleFile(<<"script">>))

Repositories ==
    { [present |-> TRUE, items |-> FullItems],
      [present |-> TRUE, items |-> Without(FullItems, {"CLAUDE.md"})],
      [present |-> TRUE,
       items |-> [FullItems EXCEPT !["agent_instructions"] = BundleDir]],
      [present |-> TRUE, items |-> [FullItems EXCEPT !["README.md"] = BundleDir]],
      [present |-> FALSE, items |-> EmptyDir] }

CommandLines ==
    { [interactive |-> FALSE, languages |-> l] :
        l \in { <<>>, <<"python">>, <<"python", "go">>,
                <<"python", "rust", "java">>, <<".">>, <<"notes.txt">> } }
    \cup { [interactive |-> TRUE, languages |-> <<>>] }

\* What the destination may hold before the first run.
Destinations ==
    { EmptyDir,
      ("main.py" :> OldEntry("file")),
      ("CLAUDE.md" :> OldEntry("file")) @@ ("main.py" :> OldEntry("file")),
      ("CLAUDE.md" :> OldEntry("file")) @@ ("agent_instructions" :> OldEntry("dir")),
      ("CLAUDE.md" :> OldEntry("dir")) @@ ("agent_instructions" :> OldEntry("file")) }

OldBackups ==
    { EmptyDir, (1 :> ("CLAUDE.md" :> OldEntry("file"))) }


----------------------------------------------------------------------------
(* The specifications                                                     *)

NoCall == [op |-> "none"]

MdIdle ==
    /\ mdFile = NoFile
    /\ mdKeep = <<>>
    /\ mdCall = NoCall

SafetyIdle ==
    /\ euid = 1000
    /\ links = LinuxLinks
    /\ home = <<"home", "u">>
    /\ cwd = <<"home", "u", "proj">>
    /\ fs = LinuxFiles
    /\ call = NoCall

InstallIdle ==
    /\ pc = "idle"
    /\ argv = [interactive |-> FALSE, languages |-> <<>>]
    /\ remote = [present |-> FALSE, items |-> EmptyDir]
    /\ tmpdir = <<"tmp">>
    /\ scratchExists = FALSE
    /\ scratchMade = FALSE
    /\ scratch = EmptyDir
    /\ languages = <<>>
    /\ dest = EmptyDir
    /\ backups = EmptyDir
    /\ now = 1
    /\ run = 1
    /\ todo = {}
    /\ err = NoErr
    /\ dest0 = EmptyDir
    /\ backups0 = EmptyDir
    /\ bk = NoBackupCall
    /\ prev = NoRun

UserIdle ==
    /\ upc = "idle"
    /\ ucfg = NoConfig
    /\ ubackups = EmptyDir
    /\ unow = 1
    /\ urun = 1
    /\ uerr = ""
    /\ ucfg0 = NoConfig
    /\ ubackups0 = EmptyDir
    /\ uts = 0
    /\ urepo = [user_setup |-> FALSE, claude_md |-> FALSE, commands |-> FALSE]


InitSafety ==
    /\ MdIdle
    /\ InstallIdle
    /\ UserIdle
    /\ euid \in {0, 1000}
    /\ \E m \in Machines :
         /\ links = m.links
         /\ home = m.home
         /\ fs = FilesOf(m)
    /\ cwd \in WorkingDirs
    /\ call = NoCall

CallSafeDelete ==
    \E path \in TriedPaths, directory_okay \in BOOLEAN :
        LET r == safe_delete(fs, path, directory_okay)
        IN  /\ fs' = r.files
            /\ call' = [op |-> "safe_delete", path |-> path,
                        directory_okay |-> directory_okay,
                        err |-> r.err, before |-> fs]
            /\ UNCHANGED <<euid, links, home, cwd>>
            /\ UNCHANGED <<mdVars, instVars, userVars>>

CallCheckSafeDirectory ==
    \E path \in TriedPaths :
        LET r == check_safe_directory(path)
        IN  /\ call' = [op |-> "check_safe_directory", path |-> path,
                        err |-> r.err, dir |-> r.dir, before |-> fs]
            /\ UNCHANGED <<euid, links, home, cwd, fs>>
            /\ UNCHANGED <<mdVars, instVars, userVars>>

NextSafety == CallSafeDelete \/ CallCheckSafeDirectory

SpecSafety == InitSafety /\ [][NextSafety]_vars

InitManifest ==
    /\ SafetyIdle
    /\ InstallIdle
    /\ UserIdle
    /\ mdFile \in { File(t) : t \in Texts } \cup {NoFile}
    /\ mdKeep \in KeepTuples
    /\ mdCall = NoCall

CallCleanClaudeMd ==
    LET r == clean_claude_md(mdFile, mdKeep)
    IN  /\ mdFile' = r.file
        /\ mdCall' = [op |-> "clean_claude_md", err |-> r.err, before |-> mdFile]
        /\ UNCHANGED mdKeep
        /\ UNCHANGED <<safetyVars, instVars, userVars>>

NextManifest == CallCleanClaudeMd

SpecManifest == InitManifest /\ [][NextManifest]_vars

InitInstall ==
    /\ MdIdle
    /\ UserIdle
    /\ fs = LinuxFiles
    /\ call = NoCall
    /\ \E m \in InstallMachines :
         /\ links = m.links
         /\ home = m.home
         /\ tmpdir = m.tmpdir
    /\ \E i \in Invocations :
         /\ euid = i.euid
         /\ cwd = i.cwd
    /\ argv \in CommandLines
    /\ remote \in Repositories
    /\ dest \in Destinations
    /\ backups \in OldBackups
    /\ dest0 = dest
    /\ backups0 = backups
    /\ pc = "start"
    /\ scratchExists = FALSE
    /\ scratchMade = FALSE
    /\ scratch = EmptyDir
    /\ languages = <<>>
    /\ now = 1
    /\ run = 1
    /\ todo = {}
    /\ err = NoErr
    /\ bk = NoBackupCall
    /\ prev = NoRun

NextInstall ==
    \/ Start
    \/ Fetch
    \/ PrepareStep
    \/ BackupStep
    \/ CopyItem
    \/ CopyBreaks
    \/ Interrupt
    \/ Cleanup
    \/ Rerun

SpecInstall == InitInstall /\ [][NextInstall]_vars

InitUser ==
    /\ MdIdle
    /\ InstallIdle
    /\ euid \in {0, 1000}
    /\ links = LinuxLinks
    /\ home = <<"home", "u">>
    /\ cwd = <<"home", "u", "proj">>
    /\ fs = LinuxFiles
    /\ call = NoCall
    /\ ucfg \in { NoConfig, Config("dir", 0), Config("file", 0),
                  Config("dangling", 0) }
    /\ ubackups \in { EmptyDir,
                      (1 :> Slot(Config("dir", 0), NoConfig)),
                      (1 :> Slot(Config("file", 0), NoConfig)) }
    /\ urepo \in UserRepositories
    /\ upc = "start"
    /\ unow = 1
    /\ urun = 1
    /\ uerr = ""
    /\ uts = 0
    /\ ucfg0 = ucfg
    /\ ubackups0 = ubackups

NextUser ==
    \/ UStart
    \/ UBackup
    \/ UMkdir
    \/ UInstall
    \/ URerun

SpecUser == InitUser /\ [][NextUser]_vars


----------------------------------------------------------------------------
(* Claims about the safety functions (SpecSafety)                          *)

\* A temp root is a proper ancestor of the path.
UnderTempRoot(p) ==
    \E i \in 1 .. Len(temp_roots) :
        /\ Len(temp_roots[i]) < Len(p)
        /\ \A k \in 1 .. Len(temp_roots[i]) : p[k] = temp_roots[i][k]

DeletionAllowed(path) ==
    /\ euid # 0
    /\ Len(Parts(Resolve(path))) > 1
    /\ UnderTempRoot(Resolve(path))

\* C1: safe_delete removes something only when the user is not root, the
\* resolved path has more than one component and a temp root is a proper
\* ancestor of it; on every other input it fails and the files are unchanged.
C1_SafeDeleteGuarded ==
    call.op = "safe_delete" =>
        /\ (fs # call.before => DeletionAllowed(call.path))
        /\ (~DeletionAllowed(call.path) => call.err # "" /\ fs = call.before)

\* A directory under a temp root was removed, with what was below it.
C1_Witness ==
    /\ call.op = "safe_delete"
    /\ call.err = ""
    /\ Resolve(call.path) \in DOMAIN call.before
    /\ Resolve(call.path) \notin DOMAIN fs
    /\ Cardinality(DOMAIN call.before) - Cardinality(DOMAIN fs) > 1

DenyListed(path) ==
    \E i \in 1 .. Len(excluded_dirs) : Resolve(path) = Resolve(excluded_dirs[i])

BelowDenyListed(path) ==
    \E i \in 1 .. Len(excluded_dirs) :
        /\ IsPrefix(Resolve(excluded_dirs[i]), Resolve(path))
        /\ Resolve(excluded_dirs[i]) # Resolve(path)

\* C2: check_safe_directory fails exactly for the paths whose resolved form
\* equals the resolved form of a deny-list entry; a strict subdirectory of a
\* deny-listed directory that is not itself listed is accepted.
C2_DenyListByEquality ==
    call.op = "check_safe_directory" =>
        /\ (call.err # "" <=> DenyListed(call.path))
        /\ (BelowDenyListed(call.path) /\ ~DenyListed(call.path) => call.err = "")

\* A subdirectory of /usr was accepted.
C2_Witness ==
    /\ call.op = "check_safe_directory"
    /\ call.err = ""
    /\ Resolve(call.path) = <<"usr", "local">>

----------------------------------------------------------------------------
(* Claims about clean_claude_md (SpecManifest)                             *)

\* The symbols after position i of the line, up to the next "/" or marker.
SegmentAfter(line, i) ==
    LET stops == { j \in (i + 1) .. Len(line) : line[j] \in {"/", Marker} }
        stop == IF stops = {} THEN Len(line) + 1
                ELSE CHOOSE j \in stops : \A k \in stops : j <= k
    IN  SubSeq(line, i + 1, stop - 1)

MarkerPlaces(line) == { i \in 1 .. Len(line) : line[i] = Marker }

\* The line holds the marker followed by a kept language name.
SomeMarkerKept(line, keep) ==
    \E i \in MarkerPlaces(line) : InTuple(SegmentAfter(line, i), keep)

\* The first marker of the line is followed by a kept language name.
FirstMarkerKept(line, keep) ==
    \E i \in MarkerPlaces(line) :
        /\ \A k \in MarkerPlaces(line) : i <= k
        /\ InTuple(SegmentAfter(line, i), keep)

LinesBefore == SplitLines(mdCall.before.text)
LinesAfter == SplitLines(mdFile.text)

\* C6 as stated: with a non-empty keepSet the lines of the rewritten manifest
\* are exactly the input lines, in order, that hold no marker or hold the
\* marker followed by a kept language name; with an empty keepSet the
\* operation fails and the manifest is not rewritten.
C6_AsStated ==
    mdCall.op = "clean_claude_md" /\ mdCall.before.exists =>
        IF mdKeep = <<>> THEN mdCall.err # "" /\ mdFile = mdCall.before
        ELSE LinesAfter =
               SelectSeq(LinesBefore,
                         LAMBDA l : MarkerPlaces(l) = {} \/ SomeMarkerKept(l, mdKeep))

RetainedLines ==
    SelectSeq(LinesBefore,
              LAMBDA l : MarkerPlaces(l) = {} \/ FirstMarkerKept(l, mdKeep))

\* C6, amended: a line is retained when it holds no marker or when its first
\* marker is followed by a kept language name; the lines of the rewritten
\* manifest are the retained lines, in order and unchanged, when there is
\* one, and a single empty line when there is none; with an empty keepSet
\* (or no manifest) the operation fails and the manifest is not rewritten.
C6_FirstMarkerDecides ==
    mdCall.op = "clean_claude_md" =>
        IF mdKeep = <<>> \/ ~mdCall.before.exists
          THEN mdCall.err # "" /\ mdFile = mdCall.before
        ELSE /\ mdCall.err = ""
             /\ mdFile.exists
             /\ LinesAfter = IF RetainedLines = <<>> THEN << <<>> >>
                             ELSE RetainedLines

\* A line with a kept language stayed and another line was dropped.
C6_Witness ==
    /\ mdCall.op = "clean_claude_md"
    /\ mdCall.err = ""
    /\ Len(LinesAfter) < Len(LinesBefore)
    /\ \E i \in 1 .. Len(LinesAfter) : MarkerPlaces(LinesAfter[i]) # {}

----------------------------------------------------------------------------
(* The project installer: what a run does to the destination              *)

\* The backup directories this run has made.
MadeNow == (DOMAIN backups) \ (DOMAIN backups0)

\* The names a call of backup_conflicting_files found taken.
Hit(b) == b.items \cap (DOMAIN b.dest)

\* The backup directories a call of backup_conflicting_files made.
MadeBy(b) == (DOMAIN b.backupsAfter) \ (DOMAIN b.backups)

\* C3: with a name taken, backup_conflicting_files makes exactly one new
\* backup directory and moves into it exactly the entries whose names are
\* taken, the others staying; with no name taken it changes nothing.
C3_BackupMovesCollisions ==
    bk.called =>
       IF Hit(bk) # {}
         THEN /\ Cardinality(MadeBy(bk)) = 1
              /\ \A ts \in MadeBy(bk) :
                    bk.backupsAfter[ts] = Restrict(bk.dest, Hit(bk))
              /\ bk.destAfter = Without(bk.dest, Hit(bk))
              /\ \A ts \in DOMAIN bk.backups :
                    /\ ts \in DOMAIN bk.backupsAfter
                    /\ bk.backupsAfter[ts] = bk.backups[ts]
       ELSE /\ bk.destAfter = bk.dest
            /\ bk.backupsAfter = bk.backups

\* The second of two completed runs with the same language selection.
SecondOfTwo ==
    /\ pc = "done"
    /\ prev.ran
    /\ prev.ok
    /\ prev.languages = languages

\* C4 as the specification states it: each of two runs in a row makes exactly
\* one backup directory, and the destination after the second is the
\* destination after the first.
C4_OneBackupPerRun ==
    SecondOfTwo =>
       /\ prev.made = 1
       /\ Cardinality(MadeNow) = 1
       /\ dest = prev.dest

\* C4: a completed run makes one backup directory when a name of the bundle
\* is taken in the destination and none otherwise; the second of two runs in
\* a row always makes one and leaves the destination as the first left it;
\* a run that finds its backup name taken changes nothing.
C4_BackupWhenTaken ==
    /\ pc = "done" =>
          Cardinality(MadeNow) = IF Hit(bk) # {} THEN 1 ELSE 0
    /\ SecondOfTwo =>
          /\ prev.made = IF Hit(prev.bk) # {} THEN 1 ELSE 0
          /\ Cardinality(MadeNow) = 1
          /\ dest = prev.dest
    /\ err.what = "FileExistsError:backup" =>
          /\ dest = dest0
          /\ backups = backups0

C4_Witness ==
    /\ SecondOfTwo
    /\ prev.made = 0
    /\ Cardinality(MadeNow) = 1
    /\ dest = prev.dest

\* The language directories installed in the destination.
InstalledLanguages ==
    { l \in LangsOf(dest) : l.kind = "dir" }

\* A completed run into an empty destination, every language asked for being
\* a directory of the bundle.
FreshInstall ==
    /\ pc = "done"
    /\ dest0 = EmptyDir
    /\ backups0 = EmptyDir
    /\ \A i \in 1 .. Len(languages) : LangExistsIsDir(remote.items, languages[i])

\* C5: a completed run into an empty destination makes no backup directory
\* and leaves exactly the top-level entries of the bundle other than
\* README.md, install.sh and install.py, with exactly the language
\* directories that were asked for.
C5_FreshInstall ==
    FreshInstall =>
       /\ backups = EmptyDir
       /\ DOMAIN dest =
             (DOMAIN remote.items) \ {"README.md", "install.sh", "install.py"}
       /\ InstalledLanguages =
             { l \in LangsOf(remote.items) :
                 /\ l.kind = "dir"
                 /\ \E i \in 1 .. Len(languages) : languages[i] = l.name }
       /\ \A n \in (DOMAIN dest) \ {"CLAUDE.md", "agent_instructions"} :
             dest[n] = remote.items[n]

C5_Witness ==
    /\ FreshInstall
    /\ "install.py" \in DOMAIN remote.items
    /\ InstalledLanguages # {}
    /\ \E l \in LangsOf(remote.items) : l.kind = "dir" /\ l \notin InstalledLanguages

\* The run has left the with block of main, having entered it.
ScratchDone ==
    /\ pc \in {"done", "failed"}
    /\ scratchMade

\* The language directories deleted from the scratch copy.
DeletedLanguages ==
    IF scratch = EmptyDir THEN {}
    ELSE (LangsOf(remote.items)) \ (LangsOf(scratch))

\* C7 as the specification states it: the scratch directory is removed only
\* if the checks of safe_delete accept its path, and is left otherwise.
C7_CleanupGuarded ==
    ScratchDone =>
       (scratchExists <=> ~DeletionAllowed(Abs(ScratchPath)))

\* C7: the scratch directory is removed on every way out of the run, whatever
\* its path; the checks of safe_delete guard only the language directories
\* deleted from the scratch copy.
C7_CleanupAlways ==
    /\ ScratchDone => ~scratchExists
    /\ \A l \in DeletedLanguages :
          DeletionAllowed(Abs(LangDir \o <<l.name>>))

C7_Witness ==
    /\ ScratchDone
    /\ ~scratchExists
    /\ ~DeletionAllowed(Abs(ScratchPath))

\* C9: every entry the destination held before the run is still there under
\* its name, unchanged, or is under that name in a backup directory this run
\* made; the backup directories of earlier runs are as they were.
C9_NothingLost ==
    /\ \A n \in DOMAIN dest0 :
          \/ n \in DOMAIN dest /\ dest[n] = dest0[n]
          \/ \E ts \in MadeNow :
                n \in DOMAIN backups[ts] /\ backups[ts][n] = dest0[n]
    /\ \A ts \in DOMAIN backups0 :
          ts \in DOMAIN backups /\ backups[ts] = backups0[ts]

C9_Witness ==
    \E n \in DOMAIN dest0 :
       /\ dest0[n].kind = "dir"
       /\ n \in DOMAIN dest
       /\ dest[n] # dest0[n]
       /\ \E ts \in MadeNow : n \in DOMAIN backups[ts]

\* A language the bundle has no directory for.
NoSuchLanguage(lang) == ~LangExistsIsDir(remote.items, lang)

\* The run has got past the validation of install_configuration.
Validated == pc \in {"backup", "copy", "done"} \/ bk.called

\* C10: the destination is touched only after the root check, the deny-list
\* check and the check of every language have passed; a language with no
\* directory of its name in the bundle ends the run with an error that names
\* the first such language, nothing deleted from the scratch copy and the
\* destination as it was.
C10_ValidationFirst ==
    /\ (dest # dest0 \/ backups # backups0) =>
          /\ euid # 0
          /\ ~DenyListed(Abs(cwd))
          /\ \A i \in 1 .. Len(languages) : ~NoSuchLanguage(languages[i])
    /\ Validated =>
          \A i \in 1 .. Len(languages) : ~NoSuchLanguage(languages[i])
    /\ err.what = "FileNotFoundError:language" =>
          /\ \E i \in 1 .. Len(languages) :
                /\ NoSuchLanguage(languages[i])
                /\ err.lang = languages[i]
                /\ \A k \in 1 .. i - 1 : ~NoSuchLanguage(languages[k])
          /\ DeletedLanguages = {}
          /\ dest = dest0
          /\ backups = backups0

----------------------------------------------------------------------------
(* The user-wide installer: where the old configuration goes              *)

\* The run has got to config_dir.mkdir.
ReachedMkdir == upc \in {"mkdir", "install", "done"} \/ uerr = "FileExistsError:mkdir"

\* C8: a configuration that was there is moved, whole, to
\* ~/.claude_backup_<timestamp> before ~/.claude is made again; the clone and
\* the links are only ever made in a directory this run made.
C8_MovedToSibling ==
    /\ (ConfigExists(ucfg0) /\ ReachedMkdir) =>
          /\ uts \in DOMAIN ubackups
          /\ ubackups[uts].top = ucfg0
    /\ upc \in {"install", "done"} =>
          /\ ucfg.kind = "dir"
          /\ ucfg.gen = urun
    /\ (ucfg.clone \/ ucfg.symlinks # {}) => ucfg.gen \in 1 .. urun

====
